---- MODULE Spec2Model ----
(***************************************************************************)
(* Shell properties of pyNastran (pyNastran/bdf/cards/properties/shell.py) *)
(* as a state machine over one property object.                            *)
(*                                                                         *)
(* A Python value is a record [tag, n, d, s]:                              *)
(*   none     None                                                         *)
(*   int      the integer n                                                *)
(*   float    the number n/d in lowest terms, d > 0 (floats are modelled   *)
(*            as exact rationals: rounding is not modelled)                *)
(*   str      the string s                                                 *)
(*   mat      a resolved Material object whose .mid is n                   *)
(*   unset    an attribute that was never assigned                         *)
(*   err      a raised exception of class s                                *)
(* An operator that models a method returns the method's value, or the err *)
(* value of the exception the method raises.                               *)
(***************************************************************************)
EXTENDS Integers, Sequences, FiniteSets, TLC

VARIABLES
    rec,    \* the property object; [type |-> "NONE"] while none is constructed
    op,     \* the name of the last operation called
    exc,    \* how it ended: "ok", or the class of the exception it raised
    card,   \* the field sequence given to the last constructor call, <<>> otherwise
    upd,    \* <<n, value>> of the last in-place field update, <<>> otherwise
    nupd    \* the number of in-place field updates made

vars == <<rec, op, exc, card, upd, nupd>>

\* ------------------------------------------------------------------ bounds
\* the number of ply groups on a card
MaxPlies == 2
\* the number of in-place field updates of one object
MaxUpdates == 1

\* ------------------------------------------------------------ Python values
None_ == [tag |-> "none", n |-> 0, d |-> 1, s |-> ""]
Unset == [tag |-> "unset", n |-> 0, d |-> 1, s |-> ""]
I(k) == [tag |-> "int", n |-> k, d |-> 1, s |-> ""]
S(x) == [tag |-> "str", n |-> 0, d |-> 1, s |-> x]
Mat(k) == [tag |-> "mat", n |-> k, d |-> 1, s |-> ""]
Err(x) == [tag |-> "err", n |-> 0, d |-> 1, s |-> x]

Abs(k) == IF k < 0 THEN -k ELSE k

RECURSIVE Gcd(_, _)
Gcd(a, b) == IF b = 0 THEN a ELSE Gcd(b, a % b)

\* the float n/d, d # 0, in lowest terms
F(n, d) ==
    LET g == Gcd(Abs(n), Abs(d))
        sg == IF d < 0 THEN -1 ELSE 1
    IN [tag |-> "float", n |-> sg * (n \div g), d |-> Abs(d) \div g, s |-> ""]

IsErr(x) == x.tag = "err"
IsNone(x) == x.tag = "none"
IsNum(x) == x.tag \in {"int", "float"}
IsInt(x) == x.tag = "int"
IsMat(x) == x.tag = "mat"

\* the result tag of Python arithmetic on two numbers
NumTag(x, y) == IF x.tag = "int" /\ y.tag = "int" THEN "int" ELSE "float"

Num(tag, n, d) == IF tag = "int" THEN I(n) ELSE F(n, d)

\* x + y, x - y, x * y, x / y (true division) with Python's exceptions
Add(x, y) ==
    IF IsErr(x) THEN x ELSE IF IsErr(y) THEN y
    ELSE IF ~(IsNum(x) /\ IsNum(y)) THEN Err("TypeError")
    ELSE Num(NumTag(x, y), x.n * y.d + y.n * x.d, x.d * y.d)

Mul(x, y) ==
    IF IsErr(x) THEN x ELSE IF IsErr(y) THEN y
    ELSE IF ~(IsNum(x) /\ IsNum(y)) THEN Err("TypeError")
    ELSE Num(NumTag(x, y), x.n * y.n, x.d * y.d)

Sub(x, y) == Add(x, Mul(I(-1), y))

Div(x, y) ==
    IF IsErr(x) THEN x ELSE IF IsErr(y) THEN y
    ELSE IF ~(IsNum(x) /\ IsNum(y)) THEN Err("TypeError")
    ELSE IF y.n = 0 THEN Err("ZeroDivisionError")
    ELSE F(x.n * y.d, x.d * y.n)

\* x == y of Python on values: numbers compare by value, 1 == 1.0 (every
\* number is kept in lowest terms, so equal numbers have equal n and d)
PyEq(x, y) ==
    IF IsNum(x) /\ IsNum(y) THEN x.n = y.n /\ x.d = y.d ELSE x = y

\* x > 0 on a number
Positive(x) == IsNum(x) /\ x.n > 0

\* ------------------------------------------------------- the field sequence
\* A card is the sequence of its fields 1..Len(card); field 0, the card's
\* name, is left out, so card.nfields is Len(card) + 1.
nfields(c) == Len(c) + 1

\* card.field(i): the field, None beyond the end of the card
field(c, i) == IF i >= 1 /\ i <= Len(c) THEN c[i] ELSE None_

\* card.fields(i, j): the fields i..j-1, None where the card has ended
fields(c, i, j) == [k \in 1..(j - i) |-> field(c, i + k - 1)]

\* the accessors of assign_type: fetch, or the default when the field is blank
integer(c, i) ==
    IF IsNone(field(c, i)) THEN Err("MissingRequiredField") ELSE field(c, i)

double(c, i) ==
    IF IsNone(field(c, i)) THEN Err("MissingRequiredField") ELSE field(c, i)

integer_or_blank(c, i, default) ==
    IF IsNone(field(c, i)) THEN default ELSE field(c, i)

double_or_blank(c, i, default) ==
    IF IsNone(field(c, i)) THEN default ELSE field(c, i)

string_or_blank(c, i, default) ==
    IF IsNone(field(c, i)) THEN default ELSE field(c, i)

\* ----------------------------------------------- CompositeShellProperty
Laminates == {"PCOMP", "PCOMPG"}

\* slots of a ply: plies[iply][slot] of the source is ply[slot + 1] here
MID == 1
T == 2
THETA == 3
SOUT == 4
GPLYID == 5

is_symmetrical(self) == self.lam = S("SYM")

\* the deprecated alias of is_symmetrical
isSymmetrical(self) == is_symmetrical(self)

\* the doubling of a symmetric stack forgotten
get_nplies_stored(self) == Len(self.plies)

get_nplies(self) ==
    IF is_symmetrical(self) THEN Len(self.plies) * 2 ELSE Len(self.plies)

\* the second half mirrored about the mid-plane: 2n - 1 - iply
_adjust_ply_id_reversed(self, iply) ==
    IF iply = S("all") THEN iply
    ELSE LET nplies == Len(self.plies)
         IN IF iply.n >= nplies
            THEN IF iply.n < get_nplies(self)
                 THEN I(2 * nplies - 1 - iply.n)
                 ELSE Err("IndexError")
            ELSE IF iply.n < 0 THEN Err("IndexError")
            ELSE iply

\* the mirrored index not brought back into the stored plies
_adjust_ply_id_unfolded(self, iply) ==
    IF iply = S("all") THEN iply
    ELSE LET nplies == Len(self.plies)
         IN IF iply.n >= nplies
            THEN IF iply.n < get_nplies(self) THEN iply ELSE Err("IndexError")
            ELSE IF iply.n < 0 THEN Err("IndexError")
            ELSE iply

\* the index into self.plies (an int value), 'all', or the IndexError
_adjust_ply_id(self, iply) ==
    IF iply = S("all") THEN iply
    ELSE LET nplies == Len(self.plies)
         IN IF iply.n >= nplies
            THEN IF iply.n < get_nplies(self)
                 THEN I(iply.n - nplies)
                 ELSE Err("IndexError")
            ELSE IF iply.n < 0 THEN Err("IndexError")
            ELSE iply

RECURSIVE get_thickness(_, _)

\* thick += self.get_thickness(iply) for iply in range(k)
RECURSIVE SumThickness(_, _)
SumThickness(self, k) ==
    IF k = 0 THEN F(0, 1)
    ELSE Add(SumThickness(self, k - 1), get_thickness(self, I(k - 1)))

\* the aggregate of a symmetric stack not doubled
get_thickness_half(self, iply) ==
    IF iply = S("all")
    THEN SumThickness(self, Len(self.plies))
    ELSE LET i == _adjust_ply_id(self, iply)
         IN IF IsErr(i) THEN i ELSE self.plies[i.n + 1][T]

get_thickness(self, iply) ==
    IF iply = S("all")
    THEN LET thick == SumThickness(self, Len(self.plies))
         IN IF isSymmetrical(self) THEN Mul(thick, F(2, 1)) ELSE thick
    ELSE LET i == _adjust_ply_id(self, iply)
         IN IF IsErr(i) THEN i ELSE self.plies[i.n + 1][T]

\* the deprecated alias of get_thickness
Thickness(self, iply) == get_thickness(self, iply)

Material(self, iply) ==
    LET i == _adjust_ply_id(self, iply)
    IN IF IsErr(i) THEN i ELSE self.plies[i.n + 1][MID]

\* the slot's value returned as it is, a material object included
Mid_raw(self, iply) ==
    LET i == _adjust_ply_id(self, iply)
    IN IF IsErr(i) THEN i ELSE Material(self, i)

\* isinstance(Mid, integer_types): Mid, else Mid.mid
Mid(self, iply) ==
    LET i == _adjust_ply_id(self, iply)
    IN IF IsErr(i) THEN i
       ELSE LET m == Material(self, i)
            IN IF IsErr(m) \/ IsInt(m) THEN m
               ELSE IF IsMat(m) THEN I(m.n)
               ELSE Err("AttributeError")

get_theta(self, iply) ==
    LET i == _adjust_ply_id(self, iply)
    IN IF IsErr(i) THEN i ELSE self.plies[i.n + 1][THETA]

get_sout(self, iply) ==
    LET i == _adjust_ply_id(self, iply)
    IN IF IsErr(i) THEN i ELSE self.plies[i.n + 1][SOUT]

\* the density of the material object of identifier k
MatRho(k) == IF k = 1 THEN F(2, 1) ELSE F(0, 1)

\* m.rho / m.get_density() of a slot's value
Rho(m) == IF IsMat(m) THEN MatRho(m.n) ELSE Err("AttributeError")

get_density(self, iply) ==
    LET i == _adjust_ply_id(self, iply)
    IN IF IsErr(i) THEN i
       ELSE LET m == Material(self, i)
            IN IF IsErr(m) THEN m ELSE Rho(m)

\* the list z after i passes of the loop, or the exception
RECURSIVE ZLoop(_, _)
ZLoop(self, i) ==
    IF i = 0
    THEN IF self.z0.tag = "unset"
         THEN [err |-> "AttributeError", z |-> <<>>]
         ELSE [err |-> "ok", z |-> <<self.z0>>]
    ELSE LET r == ZLoop(self, i - 1)
             thick == get_thickness(self, I(i - 1))
             zi == IF r.err = "ok" THEN Add(r.z[Len(r.z)], thick) ELSE Err(r.err)
         IN IF r.err # "ok" THEN r
            ELSE IF IsErr(zi) THEN [err |-> zi.s, z |-> <<>>]
            ELSE [err |-> "ok", z |-> Append(r.z, zi)]

get_z_locations(self) == ZLoop(self, get_nplies(self))

Methods == {"nplies", "rho*t", "t"}

\* mass_per_area += rho * t for iply in range(k)
RECURSIVE SumRhoT(_, _, _)
SumRhoT(self, rhos, k) ==
    IF k = 0 THEN F(0, 1)
    ELSE Add(SumRhoT(self, rhos, k - 1), Mul(rhos[k], self.plies[k][T]))

RECURSIVE get_mass_per_area_rho(_, _, _, _)

\* the method not asserted: only the last else of a per-ply request rejects it
get_mass_per_area_rho_unchecked(self, rhos, iply, method) ==
    LET i == _adjust_ply_id(self, iply)
    IN IF IsErr(i) THEN i
       ELSE IF i = S("all")
       THEN LET mass_per_area == SumRhoT(self, rhos, Len(self.plies))
            IN IF is_symmetrical(self)
               THEN Add(Mul(F(2, 1), mass_per_area), self.nsm)
               ELSE Add(mass_per_area, self.nsm)
       ELSE LET rho == rhos[i.n + 1]
                t == self.plies[i.n + 1][T]
            IN IF method = "nplies"
               THEN Add(Mul(rho, t), Div(self.nsm, I(get_nplies(self))))
               ELSE IF method = "rho*t"
               THEN LET mass_per_area_total ==
                            Add(SumRhoT(self, rhos, Len(self.plies)), self.nsm)
                    IN Mul(Mul(rho, t),
                           Add(F(1, 1),
                               Div(self.nsm, Sub(mass_per_area_total, self.nsm))))
               ELSE IF method = "t"
               THEN Mul(t, Add(rho, Div(self.nsm, get_thickness(self, S("all")))))
               ELSE Err("NotImplementedError")

get_mass_per_area_rho(self, rhos, iply, method) ==
    IF method \notin Methods THEN Err("AssertionError")
    ELSE LET i == _adjust_ply_id(self, iply)
         IN IF IsErr(i) THEN i
            ELSE IF i = S("all")
            THEN LET mass_per_area == SumRhoT(self, rhos, Len(self.plies))
                 IN IF is_symmetrical(self)
                    THEN Add(Mul(F(2, 1), mass_per_area), self.nsm)
                    ELSE Add(mass_per_area, self.nsm)
            ELSE LET rho == rhos[i.n + 1]
                     t == self.plies[i.n + 1][T]
                 IN IF method = "nplies"
                    THEN Add(Mul(rho, t), Div(self.nsm, I(get_nplies(self))))
                    ELSE IF method = "rho*t"
                    THEN LET mass_per_area_total ==
                                 get_mass_per_area_rho(self, rhos, S("all"), "nplies")
                         IN Mul(Mul(rho, t),
                                Add(F(1, 1),
                                    Div(self.nsm, Sub(mass_per_area_total, self.nsm))))
                    ELSE LET thickness_total == get_thickness(self, S("all"))
                         IN Mul(t, Add(rho, Div(self.nsm, thickness_total)))

\* rhos = [ply[0].get_density() for ply in self.plies]
get_mass_per_area(self, iply, method) ==
    LET rhos == [k \in 1..Len(self.plies) |-> Rho(self.plies[k][MID])]
    IN IF \E k \in 1..Len(self.plies) : IsErr(rhos[k])
       THEN Err("AttributeError")
       ELSE get_mass_per_area_rho(self, rhos, iply, method)

\* ------------------------------------------------------------------ PCOMP
NoRecord == [type |-> "NONE"]

FailureTheories == {S("HILL"), S("HOFF"), S("TSAI"), S("STRN"), None_}
LamModes == {None_, S("SYM"), S("MEM"), S("BEND"), S("SMEAR"), S("SMCORE")}

Blank4 == <<None_, None_, None_, None_>>

\* the loop over the ply groups from field i on: the exception it raises or
\* "ok", and self.plies as it then is.  `not t > 0.` on a blank thickness
\* (None) also raises: RuntimeError with Python 2's ordering of None, a
\* TypeError with Python 3.
RECURSIVE PCOMP_plies(_, _, _, _, _, _)
PCOMP_plies(c, i, stop, plies, mid_last, thick_last) ==
    IF i >= stop THEN [err |-> "ok", plies |-> plies]
    ELSE LET actual == fields(c, i, i + 4)
             mid == integer_or_blank(c, i, mid_last)
             t == double_or_blank(c, i + 1, thick_last)
             theta == double_or_blank(c, i + 2, F(0, 1))
             sout == string_or_blank(c, i + 3, S("NO"))
         IN IF ~Positive(t) THEN [err |-> "RuntimeError", plies |-> plies]
            ELSE PCOMP_plies(c, i + 4, stop,
                             IF actual # Blank4
                             THEN Append(plies, <<mid, t, theta, sout>>)
                             ELSE plies,
                             mid, t)

\* PCOMP(card): [err |-> the exception or "ok", obj |-> the object]
PCOMP_init(c) ==
    LET pid == integer(c, 1)
        nsm == double_or_blank(c, 3, F(0, 1))
        sb == double_or_blank(c, 4, F(0, 1))
        ft == string_or_blank(c, 5, None_)
        TRef == double_or_blank(c, 6, F(0, 1))
        ge == double_or_blank(c, 7, F(0, 1))
        lam == string_or_blank(c, 8, None_)
        nply_fields == nfields(c) - 9
        nmajor == (nply_fields \div 4) + (IF nply_fields % 4 # 0 THEN 1 ELSE 0)
        nplies == nmajor
        loop == PCOMP_plies(c, 9, 9 + nplies * 4, <<>>, None_, None_)
        self == [type |-> "PCOMP", pid |-> pid, z0 |-> Unset, nsm |-> nsm,
                 sb |-> sb, ft |-> ft, TRef |-> TRef, ge |-> ge, lam |-> lam,
                 plies |-> loop.plies]
        z0 == double_or_blank(c, 2, Mul(F(-1, 2), Thickness(self, S("all"))))
    IN IF IsErr(pid) THEN [err |-> pid.s, obj |-> NoRecord]
       ELSE IF ft \notin FailureTheories \/ lam \notin LamModes
       THEN [err |-> "AssertionError", obj |-> NoRecord]
       ELSE IF loop.err # "ok" THEN [err |-> loop.err, obj |-> NoRecord]
       ELSE [err |-> "ok", obj |-> [self EXCEPT !.z0 = z0]]

\* sout of the binary table: 0 is 'NO', 1 is 'YES'
DataSout(sout) ==
    IF sout = I(0) THEN S("NO") ELSE IF sout = I(1) THEN S("YES") ELSE Err("RuntimeError")

\* PCOMP(data=[pid, z0, nsm, sb, ft, TRef, ge, lam, Mid, T, Theta, Sout])
PCOMP_data(data) ==
    LET n == Len(data[9])
        plies == [k \in 1..n |->
                     <<data[9][k], data[10][k], data[11][k], DataSout(data[12][k])>>]
    IN IF data[8] \notin {S("SYM"), S("NO")}
       THEN [err |-> "AssertionError", obj |-> NoRecord]
       ELSE IF \E k \in 1..n : IsErr(plies[k][SOUT])
       THEN [err |-> "RuntimeError", obj |-> NoRecord]
       ELSE [err |-> "ok",
             obj |-> [type |-> "PCOMP", pid |-> data[1], z0 |-> data[2],
                      nsm |-> data[3], sb |-> data[4], ft |-> data[5],
                      TRef |-> data[6], ge |-> data[7], lam |-> data[8],
                      plies |-> plies]]

\* ----------------------------------------------------------------- PCOMPG
\* the while loop from i on: the exception or "ok", self.plies, T and self.z0
RECURSIVE PCOMPG_plies(_, _, _, _, _, _, _, _)
PCOMPG_plies(c, i, len, plies, Tsum, z0, mid_last, thick_last) ==
    IF ~(i < len) THEN [err |-> "ok", plies |-> plies, z0 |-> z0]
    ELSE LET global_ply_id == integer(c, 9 + i)
             mid == integer_or_blank(c, 9 + i + 1, mid_last)
             thickness == double_or_blank(c, 9 + i + 2, thick_last)
             theta == double_or_blank(c, 9 + i + 3, F(0, 1))
             sout == string_or_blank(c, 9 + i + 4, S("NO"))
             ply == <<mid, thickness, theta, sout, global_ply_id>>
             Tnew == Add(Tsum, thickness)
         IN IF IsErr(global_ply_id)
            THEN [err |-> global_ply_id.s, plies |-> plies, z0 |-> z0]
            ELSE IF IsNone(mid) \/ IsNone(thickness)
                    \/ ~IsInt(mid) \/ thickness.tag # "float"
            THEN [err |-> "AssertionError", plies |-> Append(plies, ply), z0 |-> z0]
            ELSE PCOMPG_plies(c, i + 8, len, Append(plies, ply), Tnew,
                              double_or_blank(c, 2, Mul(F(-1, 2), Tnew)),
                              mid, thickness)

PCOMPG_init(c) ==
    LET pid == integer(c, 1)
        nsm == double_or_blank(c, 3, F(0, 1))
        sb == double_or_blank(c, 4, F(0, 1))
        ft == string_or_blank(c, 5, None_)
        TRef == double_or_blank(c, 6, F(0, 1))
        ge == double_or_blank(c, 7, F(0, 1))
        lam == string_or_blank(c, 8, None_)
        len == IF nfields(c) > 9 THEN nfields(c) - 9 ELSE 0
        loop == PCOMPG_plies(c, 0, len, <<>>, F(0, 1), Unset, None_, None_)
    IN IF IsErr(pid) THEN [err |-> pid.s, obj |-> NoRecord]
       ELSE IF ft \notin FailureTheories
       THEN [err |-> "AssertionError", obj |-> NoRecord]
       ELSE IF loop.err # "ok" THEN [err |-> loop.err, obj |-> NoRecord]
       ELSE [err |-> "ok",
             obj |-> [type |-> "PCOMPG", pid |-> pid, z0 |-> loop.z0, nsm |-> nsm,
                      sb |-> sb, ft |-> ft, TRef |-> TRef, ge |-> ge, lam |-> lam,
                      plies |-> loop.plies]]

\* the plies sharing one list object: the slot is written in every ply
PCOMP_update_field_helper_shared(self, n, value) ==
    LET nnew == n - 9
        ilayer == nnew \div 4
        slot == nnew % 4
    IN IF nnew <= 0 THEN [err |-> "KeyError", obj |-> self]
       ELSE IF ilayer >= Len(self.plies) THEN [err |-> "IndexError", obj |-> self]
       ELSE [err |-> "ok",
             obj |-> [self EXCEPT !.plies =
                         [k \in 1..Len(self.plies) |->
                             [self.plies[k] EXCEPT ![slot + 1] = value]]]]

\* PCOMP._update_field_helper(n, value): the exception or "ok", and the object
PCOMP_update_field_helper(self, n, value) ==
    LET nnew == n - 9
        ilayer == nnew \div 4
        slot == nnew % 4
    IN IF nnew <= 0 THEN [err |-> "KeyError", obj |-> self]
       ELSE IF ilayer >= Len(self.plies) THEN [err |-> "IndexError", obj |-> self]
       ELSE [err |-> "ok", obj |-> [self EXCEPT !.plies[ilayer + 1][slot + 1] = value]]

PCOMPG_update_field_helper(self, n, value) ==
    LET nnew == n - 9
        ilayer == nnew \div 5
        slot == nnew % 5
    IN IF nnew <= 0 THEN [err |-> "KeyError", obj |-> self]
       ELSE IF ilayer >= Len(self.plies) THEN [err |-> "IndexError", obj |-> self]
       ELSE [err |-> "ok", obj |-> [self EXCEPT !.plies[ilayer + 1][slot + 1] = value]]

\* ------------------------------------------- field listings and _verify
\* the first exception among the values of a sequence, None without one
FirstErr(vs) ==
    IF \E k \in 1..Len(vs) : IsErr(vs[k])
    THEN vs[CHOOSE k \in 1..Len(vs) : IsErr(vs[k]) /\ \A j \in 1..(k - 1) : ~IsErr(vs[j])]
    ELSE None_

\* reading an attribute: AttributeError when it was never assigned
Attr(v) == IF v = Unset THEN Err("AttributeError") ELSE v

\* set_blank_if_default(value, default): None when the value is the default
set_blank_if_default(value, default) ==
    IF IsErr(value) THEN value ELSE IF IsErr(default) THEN default
    ELSE IF PyEq(value, default) THEN None_ ELSE value

\* Mids(): the identifier of every effective ply
Mids(self) == [k \in 1..get_nplies(self) |-> Mid(self, I(k - 1))]

\* the listings below are the list the method builds; an err entry is the
\* exception raised while it was built
\* the material slot listed as stored, not through Mid(iply)
PCOMP_raw_fields_stored(self) ==
    <<S("PCOMP"), self.pid, Attr(self.z0), self.nsm, self.sb, self.ft,
      self.TRef, self.ge, self.lam>>
    \o [j \in 1..(4 * Len(self.plies)) |->
           self.plies[((j - 1) \div 4) + 1][((j - 1) % 4) + 1]]

PCOMP_raw_fields(self) ==
    <<S("PCOMP"), self.pid, Attr(self.z0), self.nsm, self.sb, self.ft,
      self.TRef, self.ge, self.lam>>
    \o [j \in 1..(4 * Len(self.plies)) |->
           LET k == ((j - 1) \div 4) + 1
               slot == (j - 1) % 4
           IN IF slot = 0 THEN Mid(self, I(k - 1)) ELSE self.plies[k][slot + 1]]

PCOMP_repr_fields(self) ==
    <<S("PCOMP"), self.pid,
      set_blank_if_default(Attr(self.z0), Mul(F(-1, 2), get_thickness(self, S("all")))),
      set_blank_if_default(self.nsm, F(0, 1)),
      set_blank_if_default(self.sb, F(0, 1)), self.ft,
      set_blank_if_default(self.TRef, F(0, 1)),
      set_blank_if_default(self.ge, F(0, 1)), self.lam>>
    \o [j \in 1..(4 * Len(self.plies)) |->
           LET k == ((j - 1) \div 4) + 1
               slot == (j - 1) % 4
           IN IF slot = 0 THEN Mid(self, I(k - 1))
              ELSE IF slot = 3 THEN set_blank_if_default(self.plies[k][SOUT], S("NO"))
              ELSE self.plies[k][slot + 1]]

\* a ply of a PCOMPG is listed as gid, mid, t, theta, sout and three blanks
PCOMPG_ply_field(self, j, sout_default) ==
    LET k == ((j - 1) \div 8) + 1
        slot == (j - 1) % 8
    IN IF slot = 0 THEN self.plies[k][GPLYID]
       ELSE IF slot = 1 THEN Mid(self, I(k - 1))
       ELSE IF slot = 2 THEN self.plies[k][T]
       ELSE IF slot = 3 THEN self.plies[k][THETA]
       ELSE IF slot = 4
       THEN IF sout_default THEN set_blank_if_default(self.plies[k][SOUT], S("NO"))
            ELSE self.plies[k][SOUT]
       ELSE None_

PCOMPG_raw_fields(self) ==
    <<S("PCOMPG"), self.pid, Attr(self.z0), self.nsm, self.sb, self.ft,
      self.TRef, self.ge, self.lam>>
    \o [j \in 1..(8 * Len(self.plies)) |-> PCOMPG_ply_field(self, j, FALSE)]

PCOMPG_repr_fields(self) ==
    <<S("PCOMPG"), self.pid,
      set_blank_if_default(Attr(self.z0), Mul(F(-1, 2), Thickness(self, S("all")))),
      set_blank_if_default(self.nsm, F(0, 1)),
      set_blank_if_default(self.sb, F(0, 1)), self.ft,
      set_blank_if_default(self.TRef, F(0, 1)),
      set_blank_if_default(self.ge, F(0, 1)), self.lam>>
    \o [j \in 1..(8 * Len(self.plies)) |-> PCOMPG_ply_field(self, j, TRUE)]

\* assert cond
Check(cond) == IF cond THEN None_ ELSE Err("AssertionError")

IsFloat(x) == x.tag = "float"

\* GlobalPlyID(iply): self.plies[iply][4], the index not mirrored; a list
\* takes a negative index from its end
GlobalPlyID(self, iply) ==
    LET n == Len(self.plies)
    IN IF iply >= n \/ iply < -n THEN Err("IndexError")
       ELSE IF iply < 0 THEN self.plies[n + iply + 1][GPLYID]
       ELSE self.plies[iply + 1][GPLYID]

\* the loop of _verify over the effective plies from iply on
RECURSIVE verify_plies(_, _, _)
verify_plies(self, iply, nplies) ==
    IF iply >= nplies THEN None_
    ELSE LET glply == IF self.type = "PCOMPG" THEN GlobalPlyID(self, iply) ELSE I(0)
             mid2 == Mid(self, I(iply))
             t == Thickness(self, I(iply))
             rho == get_density(self, I(iply))
             mpa == get_mass_per_area(self, I(iply), "nplies")
             e == FirstErr(<<glply, mid2, t, rho, mpa, Check(IsInt(glply)),
                             Check(IsFloat(t)), Check(IsFloat(rho)),
                             Check(IsFloat(mpa))>>)
         IN IF IsErr(e) THEN e ELSE verify_plies(self, iply + 1, nplies)

\* _verify(): None, or the first exception it raises
_verify(self) ==
    LET t == Thickness(self, S("all"))
        mpa == get_mass_per_area(self, S("all"), "nplies")
    IN FirstErr(<<FirstErr(Mids(self)), Check(IsInt(self.pid)),
                  Check(IsFloat(self.nsm)), t, mpa, Check(IsFloat(t)),
                  Check(IsFloat(mpa)),
                  verify_plies(self, 0, get_nplies(self))>>)

\* ----------------------------------------------------------------- PSHELL
PSHELL_init(c) ==
    LET pid == integer(c, 1)
        mid1 == integer_or_blank(c, 2, None_)
        t == double_or_blank(c, 3, None_)
        mid2 == integer_or_blank(c, 4, None_)
        twelveIt3 == double_or_blank(c, 5, F(1, 1))
        mid3 == integer_or_blank(c, 6, None_)
        tst == double_or_blank(c, 7, F(833333, 1000000))
        nsm == double_or_blank(c, 8, F(0, 1))
        tOver2 == Div(t, F(2, 1))
        z1 == IF ~IsNone(t) THEN double_or_blank(c, 9, Mul(I(-1), tOver2))
              ELSE double_or_blank(c, 9, None_)
        z2 == IF ~IsNone(t) THEN double_or_blank(c, 10, tOver2)
              ELSE double_or_blank(c, 10, None_)
        mid4 == integer_or_blank(c, 11, None_)
    IN IF IsErr(pid) THEN [err |-> pid.s, obj |-> NoRecord]
       ELSE IF (~IsNone(t) /\ t.n < 0) \/ nfields(c) > 12
       THEN [err |-> "AssertionError", obj |-> NoRecord]
       ELSE [err |-> "ok",
             obj |-> [type |-> "PSHELL", pid |-> pid, mid1 |-> mid1, t |-> t,
                      mid2 |-> mid2, twelveIt3 |-> twelveIt3, mid3 |-> mid3,
                      tst |-> tst, nsm |-> nsm, z1 |-> z1, z2 |-> z2,
                      mid4 |-> mid4]]

\* isinstance(m, Material): m.mid, else m
MidOf(m) == IF IsMat(m) THEN I(m.n) ELSE m

Mid1(self) == MidOf(self.mid1)
Mid2(self) == MidOf(self.mid2)
Mid3(self) == MidOf(self.mid3)
Mid4(self) == MidOf(self.mid4)

\* the truth value of a slot: None and 0 are false
Truthy(m) == ~IsNone(m) /\ ~(IsNum(m) /\ m.n = 0)

\* the property mid: mid1 when it is resolved, mid2 otherwise
PSHELL_mid(self) == IF IsMat(self.mid1) THEN self.mid1 ELSE self.mid2

\* Mid(): the identifier of mid1 when it is resolved, Mid2() otherwise
PSHELL_Mid(self) == IF IsMat(self.mid1) THEN I(self.mid1.n) ELSE Mid2(self)

\* v(): none of None, a number, a string or a material handle can be called
PyCall(v) == IF IsErr(v) THEN v ELSE Err("TypeError")

\* Rho(): self.mid().rho, a call of what the property mid returns
PSHELL_Rho(self) ==
    LET m == PyCall(PSHELL_mid(self)) IN IF IsErr(m) THEN m ELSE Rho(m)

PSHELL_MassPerArea(self) == Add(self.nsm, Mul(PSHELL_Rho(self), self.t))

\* the slots that are not None, in order
PSHELL_mids(self) ==
    SelectSeq(<<self.mid1, self.mid2, self.mid3, self.mid4>>, LAMBDA v : ~IsNone(v))

\* the loop of _verify(xref=True) over them: the second of them may be the
\* integer -1, every other is a Material
PSHELL_verify_mids(self) ==
    [i \in 1..Len(PSHELL_mids(self)) |->
        LET v == PSHELL_mids(self)[i]
        IN IF i = 2 /\ IsInt(v) THEN Check(v = I(-1)) ELSE Check(IsMat(v))]

\* PSHELL._verify(xref): None, or the first exception it raises
PSHELL_verify(self, xref) ==
    LET mpa == PSHELL_MassPerArea(self)
    IN FirstErr(<<Check(IsInt(self.pid)), Check(IsInt(PSHELL_Mid(self))),
                  Check(IsNone(Mid1(self)) \/ IsInt(Mid1(self))),
                  Check(IsNone(Mid2(self)) \/ IsInt(Mid2(self))),
                  Check(IsNone(Mid3(self)) \/ IsInt(Mid3(self))),
                  Check(IsNone(Mid4(self)) \/ IsInt(Mid4(self))),
                  Check(Len(PSHELL_mids(self)) > 0)>>
                \o IF xref
                   THEN <<LET m == PyCall(PSHELL_mid(self))
                          IN IF IsErr(m) THEN m ELSE Check(IsMat(m)),
                          FirstErr(PSHELL_verify_mids(self)), mpa,
                          Check(IsFloat(self.t)), Check(IsFloat(self.nsm)),
                          Check(IsFloat(mpa))>>
                   ELSE <<>>)

PSHELL_raw_fields(self) ==
    <<S("PSHELL"), self.pid, Mid1(self), self.t, Mid2(self), self.twelveIt3,
      Mid3(self), self.tst, self.nsm, self.z1, self.z2, Mid4(self)>>

PSHELL_repr_fields(self) ==
    LET twelveIt3 == set_blank_if_default(self.twelveIt3, F(1, 1))
        tst == set_blank_if_default(self.tst, F(833333, 1000000))
        nsm == set_blank_if_default(self.nsm, F(0, 1))
        tOver2 == Div(self.t, F(2, 1))
        z1 == IF ~IsNone(self.t)
              THEN set_blank_if_default(self.z1, Mul(I(-1), tOver2)) ELSE self.z1
        z2 == IF ~IsNone(self.t)
              THEN set_blank_if_default(self.z2, tOver2) ELSE self.z2
    IN <<S("PSHELL"), self.pid, Mid1(self), self.t, Mid2(self), twelveIt3,
         Mid3(self), tst, nsm, z1, z2, Mid4(self)>>

\* ------------------------------------------------- cross-referencing
\* model.Material(mid, msg) of the registry `model` (the set of the material
\* identifiers it holds): the material object, KeyError for anything else
Registry_Material(model, mid) ==
    IF IsInt(mid) /\ mid.n \in model THEN Mat(mid.n) ELSE Err("KeyError")

\* CompositeShellProperty.cross_reference from ply k on: the loop stops at
\* the first ply the registry does not resolve
RECURSIVE XrefPlies(_, _, _)
XrefPlies(plies, model, k) ==
    IF k > Len(plies) THEN [err |-> "ok", plies |-> plies]
    ELSE LET m == Registry_Material(model, plies[k][MID])
         IN IF IsErr(m) THEN [err |-> m.s, plies |-> plies]
            ELSE XrefPlies([plies EXCEPT ![k][MID] = m], model, k + 1)

cross_reference(self, model) ==
    LET r == XrefPlies(self.plies, model, 1)
    IN [err |-> r.err, obj |-> [self EXCEPT !.plies = r.plies]]

RECURSIVE UnxrefPlies(_, _)
UnxrefPlies(self, k) ==
    IF k > Len(self.plies) THEN [err |-> "ok", obj |-> self]
    ELSE LET mid == Mid(self, I(k - 1))
         IN IF IsErr(mid) THEN [err |-> mid.s, obj |-> self]
            ELSE UnxrefPlies([self EXCEPT !.plies[k][MID] = mid], k + 1)

uncross_reference(self) == UnxrefPlies(self, 1)

\* PSHELL.cross_reference: the slots in order, stopping at the first the
\* registry does not resolve
PSHELL_cross_reference(self, model) ==
    LET m1 == IF Truthy(self.mid1) THEN Registry_Material(model, self.mid1) ELSE self.mid1
        m2 == IF Truthy(self.mid2) /\ self.mid2 # I(-1)
              THEN Registry_Material(model, self.mid2) ELSE self.mid2
        m3 == IF Truthy(self.mid3) THEN Registry_Material(model, self.mid3) ELSE self.mid3
        m4 == IF Truthy(self.mid4) THEN Registry_Material(model, self.mid4) ELSE self.mid4
    IN IF IsErr(m1) THEN [err |-> m1.s, obj |-> self]
       ELSE IF IsErr(m2) THEN [err |-> m2.s, obj |-> [self EXCEPT !.mid1 = m1]]
       ELSE IF IsErr(m3)
       THEN [err |-> m3.s, obj |-> [self EXCEPT !.mid1 = m1, !.mid2 = m2]]
       ELSE IF IsErr(m4)
       THEN [err |-> m4.s, obj |-> [self EXCEPT !.mid1 = m1, !.mid2 = m2, !.mid3 = m3]]
       ELSE [err |-> "ok",
             obj |-> [self EXCEPT !.mid1 = m1, !.mid2 = m2, !.mid3 = m3, !.mid4 = m4]]

PSHELL_uncross_reference(self) ==
    [err |-> "ok",
     obj |-> [self EXCEPT !.mid1 = Mid1(self), !.mid2 = Mid2(self),
                          !.mid3 = Mid3(self), !.mid4 = Mid4(self)]]

\* ----------------------------------------------------------------- PSHEAR
PSHEAR_init(c) ==
    LET pid == integer(c, 1)
        mid == integer(c, 2)
        t == double(c, 3)
        nsm == double_or_blank(c, 4, F(0, 1))
        f1 == double_or_blank(c, 5, F(0, 1))
        f2 == double_or_blank(c, 6, F(0, 1))
        e == FirstErr(<<pid, mid, t>>)
    IN IF IsErr(e) THEN [err |-> e.s, obj |-> NoRecord]
       ELSE IF ~(t.n > 0) \/ nfields(c) > 7
       THEN [err |-> "AssertionError", obj |-> NoRecord]
       ELSE [err |-> "ok",
             obj |-> [type |-> "PSHEAR", pid |-> pid, mid |-> mid, t |-> t,
                      nsm |-> nsm, f1 |-> f1, f2 |-> f2]]

PSHEAR_cross_reference(self, model) ==
    LET m == Registry_Material(model, self.mid)
    IN IF IsErr(m) THEN [err |-> m.s, obj |-> self]
       ELSE [err |-> "ok", obj |-> [self EXCEPT !.mid = m]]

\* Rho(): self.mid.Rho()
PSHEAR_Rho(self) == Rho(self.mid)

\* Mid(): self.mid when it is an integer, self.mid.mid otherwise
PSHEAR_Mid(self) ==
    IF IsInt(self.mid) THEN self.mid
    ELSE IF IsMat(self.mid) THEN I(self.mid.n) ELSE Err("AttributeError")

PSHEAR_MassPerArea(self) == Add(self.nsm, Mul(PSHEAR_Rho(self), self.t))

\* PSHEAR._verify(xref): None, or the first exception it raises
PSHEAR_verify(self, xref) ==
    FirstErr(<<PSHEAR_Mid(self), Check(IsInt(self.pid)),
               Check(IsInt(PSHEAR_Mid(self)))>>
             \o IF xref
                THEN <<Check(IsMat(self.mid)), Check(IsFloat(Rho(self.mid)))>>
                ELSE <<>>)

PSHEAR_raw_fields(self) ==
    <<S("PSHEAR"), self.pid, PSHEAR_Mid(self), self.t, self.nsm, self.f1, self.f2>>

\* ---------------------------------------------------------------- PLPLANE
\* a resolved coordinate system
Crd(k) == [tag |-> "coord", n |-> k, d |-> 1, s |-> ""]

PLPLANE_init(c) ==
    LET pid == integer(c, 1)
        mid == integer(c, 2)
        cid == integer_or_blank(c, 3, I(0))
        str == string_or_blank(c, 4, S("GRID"))
        e == FirstErr(<<pid, mid>>)
    IN IF IsErr(e) THEN [err |-> e.s, obj |-> NoRecord]
       ELSE [err |-> "ok",
             obj |-> [type |-> "PLPLANE", pid |-> pid, mid |-> mid, cid |-> cid,
                      str |-> str]]

\* model.Coord(cid): the registry holds the basic system 0
Registry_Coord(cid) == IF cid = I(0) THEN Crd(0) ELSE Err("KeyError")

\* PLPLANE.cross_reference: the material, then the coordinate system
PLPLANE_cross_reference(self, model) ==
    LET m == Registry_Material(model, self.mid)
        c == Registry_Coord(self.cid)
    IN IF IsErr(m) THEN [err |-> m.s, obj |-> self]
       ELSE IF IsErr(c) THEN [err |-> c.s, obj |-> [self EXCEPT !.mid = m]]
       ELSE [err |-> "ok", obj |-> [self EXCEPT !.mid = m, !.cid = c]]

\* Mid(): self.mid when it is an integer, self.mid.mid otherwise
PLPLANE_Mid(self) ==
    IF IsInt(self.mid) THEN self.mid
    ELSE IF IsMat(self.mid) THEN I(self.mid.n) ELSE Err("AttributeError")

\* ------------------------------------------------------------ the inputs
Z0Fields == {None_, F(0, 1)}
NsmFields == {None_, F(1, 1)}
LamFields == {None_, S("SYM"), S("MEM")}
MidFields == {None_, I(1), I(2)}
TFields == {None_, F(0, 1), F(1, 1), F(2, 1)}

\* the registries handed to cross_reference
Registries == {{1, 2}, {1}}

\* z0 and nsm of a header: both blank, or both given
HeaderPairs ==
    {<<None_, None_>>}
    \cup {<<z0, nsm>> : z0 \in Z0Fields \ {None_}, nsm \in NsmFields \ {None_}}

\* the header fields 1..8, one with a failure theory and one with a
\* lamination mode that the card does not define among them
Headers ==
    {<<I(1), h[1], h[2], None_, None_, None_, None_, lam>> :
        h \in HeaderPairs, lam \in LamFields}
    \cup {<<I(1), None_, None_, None_, S("HILL"), None_, None_, S("BAD")>>,
          <<I(1), None_, None_, None_, S("BAD"), None_, None_, S("SYM")>>,
          <<I(1), F(-1, 1), None_, None_, None_, None_, None_, S("SYM")>>}

PCOMP_groups == {<<mid, t, None_, None_>> : mid \in MidFields, t \in TFields}

PCOMPG_groups ==
    {<<gid, mid, t, None_, None_, None_, None_, None_>> :
        gid \in {I(7)}, mid \in {None_, I(1)}, t \in {None_, F(0, 1), F(1, 1)}}

RECURSIVE Flatten(_)
Flatten(gs) == IF gs = <<>> THEN <<>> ELSE Head(gs) \o Flatten(Tail(gs))

\* a card never ends with blank fields
RECURSIVE Trim(_)
Trim(c) ==
    IF c # <<>> /\ IsNone(c[Len(c)]) THEN Trim(SubSeq(c, 1, Len(c) - 1)) ELSE c

Cards(groups) ==
    UNION {{Trim(h \o Flatten(gs)) : h \in Headers, gs \in [1..g -> groups]} :
              g \in 0..MaxPlies}

\* the flat tuples of the binary table
PCOMP_datas ==
    UNION {{<<I(1), F(0, 1), F(1, 1), F(0, 1), None_, F(0, 1), F(0, 1), lam,
              mids, ts, [k \in 1..n |-> F(0, 1)], [k \in 1..n |-> I(0)]>> :
               lam \in {S("SYM"), S("NO")},
               mids \in [1..n -> {I(1), I(2)}],
               ts \in [1..n -> {F(0, 1), F(1, 1)}]} : n \in 0..MaxPlies}

PSHELL_cards ==
    {Trim(<<pid, mid1, F(1, 1), mid2, None_, mid3, None_, None_, None_, None_, mid4>>) :
        pid \in {I(0), I(1)},
        mid1 \in {None_, I(0), I(1), I(2)}, mid2 \in {None_, I(-1), I(1), I(2)},
        mid3 \in {None_, I(1)}, mid4 \in {None_, I(2)}}

PSHEAR_cards ==
    {Trim(<<pid, mid, t, nsm>>) :
        pid \in {I(0), I(1)}, mid \in {I(0), I(1), I(2)},
        t \in {None_, F(0, 1), F(1, 1)}, nsm \in {None_, F(1, 1)}}

PLPLANE_cards ==
    {Trim(<<I(1), mid, cid>>) : mid \in {None_, I(1), I(2)}, cid \in {None_, I(0)}}

\* the positions and values of in-place updates
UpdPositions == {9, 10, 13, 14, 9 + 4 * MaxPlies, 9 + 8 * MaxPlies}
UpdValues == {F(3, 1)}

\* the smear methods asked for, an unsupported one among them
MethodArgs == Methods \cup {"bogus"}

\* the densities handed to get_mass_per_area_rho, one per stored ply
RhoArgs(self) == {[k \in 1..Len(self.plies) |-> r] : r \in {F(2, 1)}}

\* the ply indices asked for
Indices == {S("all")} \cup {I(k) : k \in -1..(2 * MaxPlies)}

\* the integers among them
IntIndices == Indices \ {S("all")}

\* the ply indices the queries are called with: a negative index, the first
\* and the last stored ply, and an index past the longest symmetric stack
PlyIndices == {I(-1), I(0), I(MaxPlies - 1), I(2 * MaxPlies)}

\* those of the mass queries
MassIndices == {S("all")} \cup (PlyIndices \ {I(-1)})

ExcOf(v) == IF IsErr(v) THEN v.s ELSE "ok"

\* ------------------------------------------------------------ the actions
Init ==
    /\ rec = NoRecord
    /\ op = "start"
    /\ exc = "ok"
    /\ card = <<>>
    /\ upd = <<>>
    /\ nupd = 0

\* a constructor call on the card c that ended as r
Constructed(name, c, r) ==
    /\ rec' = r.obj
    /\ op' = name
    /\ exc' = r.err
    /\ card' = c
    /\ upd' = <<>>
    /\ UNCHANGED nupd

\* a call of a method that ended as r
Called(name, r) ==
    /\ rec' = r.obj
    /\ op' = name
    /\ exc' = r.err
    /\ card' = <<>>
    /\ upd' = <<>>
    /\ UNCHANGED nupd

\* a read-only call that returned or raised `value`: the object stays as it is
Query(name, value) == Called(name, [err |-> ExcOf(value), obj |-> rec])

New_PCOMP ==
    /\ op = "start"
    /\ \E c \in Cards(PCOMP_groups) : Constructed("PCOMP", c, PCOMP_init(c))

New_PCOMP_data ==
    /\ op = "start"
    /\ \E data \in PCOMP_datas : Constructed("PCOMP_data", <<>>, PCOMP_data(data))

New_PCOMPG ==
    /\ op = "start"
    /\ \E c \in Cards(PCOMPG_groups) : Constructed("PCOMPG", c, PCOMPG_init(c))

New_PSHELL ==
    /\ op = "start"
    /\ \E c \in PSHELL_cards : Constructed("PSHELL", c, PSHELL_init(c))

New_PSHEAR ==
    /\ op = "start"
    /\ \E c \in PSHEAR_cards : Constructed("PSHEAR", c, PSHEAR_init(c))

Call_PSHEAR_cross_reference ==
    /\ rec.type = "PSHEAR"
    /\ \E model \in Registries :
          Called("cross_reference", PSHEAR_cross_reference(rec, model))

Call_PSHEAR_MassPerArea ==
    /\ rec.type = "PSHEAR"
    /\ Query("MassPerArea", PSHEAR_MassPerArea(rec))

Call_PSHEAR_verify ==
    /\ rec.type = "PSHEAR"
    /\ \E xref \in BOOLEAN : Query("_verify", PSHEAR_verify(rec, xref))

Call_PSHEAR_raw_fields ==
    /\ rec.type = "PSHEAR"
    /\ Query("raw_fields", FirstErr(PSHEAR_raw_fields(rec)))

Call_PSHEAR_Mid ==
    /\ rec.type = "PSHEAR"
    /\ Query("Mid", PSHEAR_Mid(rec))

New_PLPLANE ==
    /\ op = "start"
    /\ \E c \in PLPLANE_cards : Constructed("PLPLANE", c, PLPLANE_init(c))

Call_PLPLANE_cross_reference ==
    /\ rec.type = "PLPLANE"
    /\ \E model \in Registries :
          Called("cross_reference", PLPLANE_cross_reference(rec, model))

Call_PLPLANE_Mid ==
    /\ rec.type = "PLPLANE"
    /\ Query("Mid", PLPLANE_Mid(rec))

Call_PSHELL_Mid ==
    /\ rec.type = "PSHELL"
    /\ Query("Mid", PSHELL_Mid(rec))

Call_PSHELL_MassPerArea ==
    /\ rec.type = "PSHELL"
    /\ Query("MassPerArea", PSHELL_MassPerArea(rec))

Call_cross_reference ==
    /\ rec.type \in Laminates
    /\ \E model \in Registries : Called("cross_reference", cross_reference(rec, model))

Call_uncross_reference ==
    /\ rec.type \in Laminates
    /\ Called("uncross_reference", uncross_reference(rec))

Call_PSHELL_cross_reference ==
    /\ rec.type = "PSHELL"
    /\ \E model \in Registries :
          Called("cross_reference", PSHELL_cross_reference(rec, model))

Call_PSHELL_uncross_reference ==
    /\ rec.type = "PSHELL"
    /\ Called("uncross_reference", PSHELL_uncross_reference(rec))

\* update_field(n, value) at a position that is not in _field_map
Call_update_field ==
    /\ rec.type \in Laminates
    /\ nupd < MaxUpdates
    /\ \E n \in UpdPositions, value \in UpdValues :
          LET r == IF rec.type = "PCOMP"
                   THEN PCOMP_update_field_helper(rec, n, value)
                   ELSE PCOMPG_update_field_helper(rec, n, value)
          IN /\ rec' = r.obj
             /\ op' = "update_field"
             /\ exc' = r.err
             /\ card' = <<>>
             /\ upd' = <<I(n), value>>
             /\ nupd' = nupd + 1

Call_get_nplies ==
    /\ rec.type \in Laminates
    /\ Query("get_nplies", I(get_nplies(rec)))

Call_adjust_ply_id ==
    /\ rec.type \in Laminates
    /\ \E iply \in PlyIndices \cup {S("all")} :
          Query("_adjust_ply_id", _adjust_ply_id(rec, iply))

Call_get_thickness ==
    /\ rec.type \in Laminates
    /\ \E iply \in PlyIndices \cup {S("all")} :
          Query("get_thickness", get_thickness(rec, iply))

Call_Mid ==
    /\ rec.type \in Laminates
    /\ \E iply \in PlyIndices : Query("Mid", Mid(rec, iply))

Call_Material ==
    /\ rec.type \in Laminates
    /\ \E iply \in PlyIndices : Query("Material", Material(rec, iply))

Call_get_theta ==
    /\ rec.type \in Laminates
    /\ \E iply \in PlyIndices : Query("get_theta", get_theta(rec, iply))

Call_get_sout ==
    /\ rec.type \in Laminates
    /\ \E iply \in PlyIndices : Query("get_sout", get_sout(rec, iply))

Call_get_density ==
    /\ rec.type \in Laminates
    /\ \E iply \in PlyIndices : Query("get_density", get_density(rec, iply))

Call_GlobalPlyID ==
    /\ rec.type = "PCOMPG"
    /\ \E iply \in PlyIndices : Query("GlobalPlyID", GlobalPlyID(rec, iply.n))

Call_get_z_locations ==
    /\ rec.type \in Laminates
    /\ Query("get_z_locations", Err(get_z_locations(rec).err))

Call_get_mass_per_area ==
    /\ rec.type \in Laminates
    /\ \E iply \in MassIndices, method \in MethodArgs :
          Query("get_mass_per_area", get_mass_per_area(rec, iply, method))

Call_get_mass_per_area_rho ==
    /\ rec.type \in Laminates
    /\ \E rhos \in RhoArgs(rec), iply \in MassIndices, method \in MethodArgs :
          Query("get_mass_per_area_rho", get_mass_per_area_rho(rec, rhos, iply, method))

Call_raw_fields ==
    /\ rec.type \in Laminates
    /\ Query("raw_fields",
             FirstErr(IF rec.type = "PCOMP" THEN PCOMP_raw_fields(rec)
                      ELSE PCOMPG_raw_fields(rec)))

Call_repr_fields ==
    /\ rec.type \in Laminates
    /\ Query("repr_fields",
             FirstErr(IF rec.type = "PCOMP" THEN PCOMP_repr_fields(rec)
                      ELSE PCOMPG_repr_fields(rec)))

Call_PSHELL_raw_fields ==
    /\ rec.type = "PSHELL"
    /\ Query("raw_fields", FirstErr(PSHELL_raw_fields(rec)))

Call_PSHELL_repr_fields ==
    /\ rec.type = "PSHELL"
    /\ Query("repr_fields", FirstErr(PSHELL_repr_fields(rec)))

Call_PSHELL_verify ==
    /\ rec.type = "PSHELL"
    /\ \E xref \in BOOLEAN : Query("_verify", PSHELL_verify(rec, xref))

Call_verify ==
    /\ rec.type \in Laminates
    /\ Query("_verify", _verify(rec))

Next ==
    \/ New_PCOMP
    \/ New_PCOMP_data
    \/ New_PCOMPG
    \/ New_PSHELL
    \/ Call_cross_reference
    \/ Call_uncross_reference
    \/ Call_PSHELL_cross_reference
    \/ Call_PSHELL_uncross_reference
    \/ Call_get_nplies
    \/ Call_adjust_ply_id
    \/ Call_get_thickness
    \/ Call_Mid
    \/ Call_Material
    \/ Call_get_theta
    \/ Call_get_sout
    \/ Call_get_density
    \/ Call_GlobalPlyID
    \/ Call_get_z_locations
    \/ Call_get_mass_per_area
    \/ Call_get_mass_per_area_rho
    \/ Call_raw_fields
    \/ Call_repr_fields
    \/ Call_PSHELL_raw_fields
    \/ Call_PSHELL_repr_fields
    \/ Call_PSHELL_verify
    \/ Call_PSHELL_MassPerArea
    \/ New_PSHEAR
    \/ Call_PSHEAR_cross_reference
    \/ Call_PSHEAR_MassPerArea
    \/ Call_PSHEAR_verify
    \/ Call_PSHEAR_raw_fields
    \/ Call_PSHEAR_Mid
    \/ Call_PSHELL_Mid
    \/ New_PLPLANE
    \/ Call_PLPLANE_cross_reference
    \/ Call_PLPLANE_Mid
    \/ Call_verify

Spec == Init /\ [][Next]_vars

\* the same operations with in-place field updates among them
NextUpd == Next \/ Call_update_field

SpecUpd == Init /\ [][NextUpd]_vars

\* ================================================================ claims
IsLaminate == rec.type \in Laminates

\* some ply of the laminate holds a resolved material
SomeResolved == \E k \in 1..Len(rec.plies) : IsMat(rec.plies[k][MID])

\* ---------------------------------------------------------------- C1
\* C1: a laminate with n stored plies has get_nplies() = 2n when its
\* lamination mode is SYM and n for every other mode, in every reachable
\* state, cross-referenced or not.
C1_nplies ==
    IsLaminate =>
        get_nplies(rec) = IF rec.lam = S("SYM")
                          THEN 2 * Len(rec.plies)
                          ELSE Len(rec.plies)

\* get_nplies() was called on a cross-referenced symmetric stack of two plies
C1_witness ==
    /\ IsLaminate
    /\ op = "get_nplies"
    /\ rec.lam = S("SYM")
    /\ Len(rec.plies) = 2
    /\ SomeResolved
    /\ get_nplies(rec) = 4

\* ---------------------------------------------------------------- C2
\* what C2 says _adjust_ply_id(i) is on a stack of n stored plies
C2_expected(self, iply) ==
    LET n == Len(self.plies)
    IN IF iply = S("all") THEN S("all")
       ELSE IF 0 <= iply.n /\ iply.n < n THEN I(iply.n)
       ELSE IF self.lam = S("SYM") /\ n <= iply.n /\ iply.n < 2 * n THEN I(iply.n - n)
       ELSE Err("IndexError")

C2_values ==
    IsLaminate => \A iply \in Indices : _adjust_ply_id(rec, iply) = C2_expected(rec, iply)

RECURSIVE SumEffThickness(_, _)
SumEffThickness(self, k) ==
    IF k = 0 THEN F(0, 1)
    ELSE Add(SumEffThickness(self, k - 1), get_thickness(self, I(k - 1)))

\* the stored thicknesses of the plies 1..k summed
RECURSIVE SumStored(_, _)
SumStored(self, k) ==
    IF k = 0 THEN F(0, 1) ELSE Add(SumStored(self, k - 1), self.plies[k][T])

\* C4: get_thickness('all') is the sum of get_thickness(i) over the
\* effective indices; on a SYM stack get_thickness(i) for n <= i < 2n is the
\* stored thickness of ply i - n, and the aggregate is twice the stored sum.
C4_thickness ==
    IsLaminate =>
        LET n == Len(rec.plies)
            all == get_thickness(rec, S("all"))
        IN /\ ~IsErr(all)
           /\ PyEq(all, SumEffThickness(rec, get_nplies(rec)))
           /\ rec.lam = S("SYM") =>
                 /\ \A i \in n..(2 * n - 1) :
                       get_thickness(rec, I(i)) = rec.plies[i - n + 1][T]
                 /\ PyEq(all, Mul(I(2), SumStored(rec, n)))

\* get_thickness was called on a symmetric stack of two plies of different
\* thickness
C4_witness ==
    /\ IsLaminate
    /\ op = "get_thickness"
    /\ exc = "ok"
    /\ rec.lam = S("SYM")
    /\ Len(rec.plies) = 2
    /\ rec.plies[1][T] = F(1, 1)
    /\ rec.plies[2][T] = F(2, 1)
    /\ get_thickness(rec, S("all")) = F(6, 1)
    /\ get_thickness(rec, I(3)) = F(2, 1)

\* ---------------------------------------------------------------- C3
\* every ply of the object holds a resolved material
AllResolved(self) == \A k \in 1..Len(self.plies) : IsMat(self.plies[k][MID])

\* get_mass_per_area(i, method) summed over the effective indices i < k
RECURSIVE SumMassPerArea(_, _, _)
SumMassPerArea(self, method, k) ==
    IF k = 0 THEN F(0, 1)
    ELSE Add(SumMassPerArea(self, method, k - 1),
             get_mass_per_area(self, I(k - 1), method))

\* C3: on a cross-referenced laminate (of at least one ply, every thickness
\* positive) and for every smear method, get_mass_per_area(i, method) summed
\* over the effective indices equals get_mass_per_area('all'), whatever the
\* densities, zero included.
C3_mass ==
    (/\ IsLaminate
     /\ Len(rec.plies) >= 1
     /\ AllResolved(rec)
     /\ \A k \in 1..Len(rec.plies) : Positive(rec.plies[k][T]))
    => \A method \in Methods :
          LET total == get_mass_per_area(rec, S("all"), method)
              sum == SumMassPerArea(rec, method, get_nplies(rec))
          IN ~IsErr(total) /\ ~IsErr(sum) /\ PyEq(sum, total)

\* ---------------------------------------------------------------- C5
\* C5: a laminate built from a card whose z0 field is blank has
\* z0 = -get_thickness('all') / 2, whatever its lamination mode and its
\* number of plies; built from a card that gives z0, it has the given z0.
C5_z0 ==
    (op \in {"PCOMP", "PCOMPG"} /\ exc = "ok")
    => IF IsNone(field(card, 2))
       THEN PyEq(rec.z0, Div(Mul(I(-1), get_thickness(rec, S("all"))), I(2)))
       ELSE rec.z0 = field(card, 2)

\* ---------------------------------------------------------------- C6
\* C6: get_z_locations() returns get_nplies() + 1 entries, the first is z0,
\* and entry k+1 minus entry k is get_thickness(k) for every effective index.
C6_z_locations ==
    IsLaminate =>
        LET r == get_z_locations(rec)
        IN /\ r.err = "ok"
           /\ Len(r.z) = get_nplies(rec) + 1
           /\ r.z[1] = rec.z0
           /\ \A k \in 0..(get_nplies(rec) - 1) :
                 PyEq(Sub(r.z[k + 2], r.z[k + 1]), get_thickness(rec, I(k)))

\* ---------------------------------------------------------------- C7
Xref(self, model) ==
    IF self.type = "PSHELL" THEN PSHELL_cross_reference(self, model)
    ELSE cross_reference(self, model)

Unxref(self) ==
    IF self.type = "PSHELL" THEN PSHELL_uncross_reference(self)
    ELSE uncross_reference(self)

\* the material slots of the object, in order
Slots(self) ==
    IF self.type = "PSHELL" THEN <<self.mid1, self.mid2, self.mid3, self.mid4>>
    ELSE [k \in 1..Len(self.plies) |-> self.plies[k][MID]]

\* every material slot holds an identifier the registry resolves; a PSHELL
\* slot may also be blank, and mid2 may be -1
Resolvable(self, model) ==
    IF self.type = "PSHELL"
    THEN \A k \in 1..4 :
            \/ IsNone(Slots(self)[k])
            \/ k = 2 /\ Slots(self)[k] = I(-1)
            \/ IsInt(Slots(self)[k]) /\ Slots(self)[k].n \in model
    ELSE \A k \in 1..Len(self.plies) :
            IsInt(Slots(self)[k]) /\ Slots(self)[k].n \in model

\* C7: on an object whose material slots hold identifiers the registry
\* resolves, cross_reference puts a material object in every such slot and
\* uncross_reference then restores every slot to its identifier: the plies'
\* slots of a laminate, mid1..mid4 of a PSHELL with its blank slots and the
\* -1 of mid2.
C7_roundtrip ==
    rec.type \in Laminates \cup {"PSHELL"} =>
        \A model \in Registries :
            Resolvable(rec, model) =>
                LET x == Xref(rec, model)
                    u == Unxref(x.obj)
                IN /\ x.err = "ok"
                   /\ \A k \in DOMAIN Slots(rec) :
                         IsInt(Slots(rec)[k]) /\ Slots(rec)[k] # I(-1)
                             => Slots(x.obj)[k] = Mat(Slots(rec)[k].n)
                   /\ u.err = "ok"
                   /\ u.obj = rec

\* cross_reference has resolved a PSHELL with a blank slot and the -1 of
\* mid2, and a symmetric laminate of two plies of different materials;
\* uncross_reference gives the identifiers back
C7_witness ==
    /\ op = "cross_reference"
    /\ exc = "ok"
    /\ \/ /\ rec.type = "PSHELL"
          /\ rec.mid1 = Mat(1)
          /\ rec.mid2 = I(-1)
          /\ IsNone(rec.mid3)
          /\ rec.mid4 = Mat(2)
          /\ Slots(Unxref(rec).obj) = <<I(1), I(-1), None_, I(2)>>
       \/ /\ rec.type \in Laminates
          /\ Slots(rec) = <<Mat(1), Mat(2)>>
          /\ Slots(Unxref(rec).obj) = <<I(1), I(2)>>

\* ---------------------------------------------------------------- C8
\* every material of the object is resolved, and there is one
CrossReferenced(self) ==
    /\ \E k \in DOMAIN Slots(self) : IsMat(Slots(self)[k])
    /\ \A k \in DOMAIN Slots(self) :
          IsMat(Slots(self)[k]) \/ IsNone(Slots(self)[k]) \/ Slots(self)[k] = I(-1)

\* no material of the object is resolved
NotCrossReferenced(self) == \A k \in DOMAIN Slots(self) : ~IsMat(Slots(self)[k])

HasSlots == rec.type \in Laminates \cup {"PSHELL"}

\* C8: cross_reference on a cross-referenced object succeeds and leaves it
\* as it is; uncross_reference on an object that is not cross-referenced
\* leaves every material slot as it is.
C8_idempotent ==
    [][HasSlots =>
          /\ (op' = "cross_reference" /\ CrossReferenced(rec))
                => (exc' = "ok" /\ rec' = rec)
          /\ (op' = "uncross_reference" /\ NotCrossReferenced(rec))
                => Slots(rec') = Slots(rec)]_vars

\* ---------------------------------------------------------------- C9
\* the card gives some ply a thickness that is not positive: a ply group is
\* `width` fields from field 9 on, its thickness the field `off` of the group
NonPositiveThickness(c, width, off) ==
    \E p \in 9..Len(c) :
        /\ (p - 9) % width = off
        /\ IsNum(c[p])
        /\ c[p].n <= 0

\* C9: a card that gives a ply a thickness that is not strictly positive
\* makes the constructor fail and yields no object, PCOMP and PCOMPG alike.
C9_thickness ==
    /\ (op = "PCOMP" /\ NonPositiveThickness(card, 4, 1))
          => (exc # "ok" /\ rec = NoRecord)
    /\ (op = "PCOMPG" /\ NonPositiveThickness(card, 8, 2))
          => (exc # "ok" /\ rec = NoRecord)

\* --------------------------------------------------------------- C10
BothLaminates == rec.type \in Laminates /\ rec'.type \in Laminates

\* the slots (k, j) in which the plies of two objects differ
ChangedSlots(a, b) ==
    {<<k, j>> \in (1..Len(a.plies)) \X (1..5) :
        j <= Len(a.plies[k]) /\ a.plies[k][j] # b.plies[k][j]}

\* C10 as stated: after construction no operation changes the number of
\* plies or a ply's thickness, and a ply's material slot changes only
\* through cross_reference / uncross_reference.
C10_frame ==
    [][BothLaminates =>
          /\ Len(rec'.plies) = Len(rec.plies)
          /\ \A k \in 1..Len(rec.plies) :
                /\ rec'.plies[k][T] = rec.plies[k][T]
                /\ rec'.plies[k][MID] # rec.plies[k][MID]
                      => op' \in {"cross_reference", "uncross_reference"}]_vars

\* C10 amended: no operation changes the number of plies or their layout;
\* cross_reference and uncross_reference change material slots only; an
\* in-place field update writes its value into at most one slot of one ply
\* (which may be the thickness or the material) and changes nothing else;
\* every other operation leaves the object as it is.
C10_amended ==
    [][BothLaminates =>
          /\ Len(rec'.plies) = Len(rec.plies)
          /\ \A k \in 1..Len(rec.plies) : Len(rec'.plies[k]) = Len(rec.plies[k])
          /\ [rec' EXCEPT !.plies = rec.plies] = rec
          /\ op' \in {"cross_reference", "uncross_reference"}
                => \A c \in ChangedSlots(rec, rec') : c[2] = MID
          /\ op' = "update_field"
                => /\ Cardinality(ChangedSlots(rec, rec')) <= 1
                   /\ \A c \in ChangedSlots(rec, rec') :
                         rec'.plies[c[1]][c[2]] = upd'[2]
          /\ op' \notin {"cross_reference", "uncross_reference", "update_field"}
                => rec' = rec]_vars

\* an in-place update has written 3.0 into the thickness slot of the first
\* ply of a two-ply laminate
C10_witness ==
    /\ IsLaminate
    /\ op = "update_field"
    /\ exc = "ok"
    /\ upd = <<I(10), F(3, 1)>>
    /\ Len(rec.plies) = 2
    /\ rec.plies[1][T] = F(3, 1)
    /\ rec.plies[2][T] = F(2, 1)

\* --------------------------------------------------------------- C11
\* what a request with an unsupported method does on every reachable laminate
C11_rho_values ==
    IsLaminate =>
        \A iply \in Indices, rhos \in RhoArgs(rec) :
            get_mass_per_area_rho(rec, rhos, iply, "bogus") = Err("AssertionError")

\* C11 as stated: get_mass_per_area and get_mass_per_area_rho with an
\* unsupported method fail with the unsupported-method error for every ply
\* index, on every laminate.
C11_unsupported ==
    /\ C11_rho_values
    /\ IsLaminate =>
          \A iply \in Indices :
              get_mass_per_area(rec, iply, "bogus") = Err("AssertionError")

\* C11 amended: get_mass_per_area_rho with an unsupported method fails with
\* the unsupported-method error for every ply index; get_mass_per_area does
\* so when every ply holds a resolved material, and fails with the
\* unresolved-material error when some ply does not; neither call changes
\* any attribute of the object.
C11_amended ==
    /\ []C11_rho_values
    /\ [](IsLaminate =>
             \A iply \in Indices :
                 get_mass_per_area(rec, iply, "bogus") =
                     IF AllResolved(rec) THEN Err("AssertionError")
                     ELSE Err("AttributeError"))
    /\ [][op' \in {"get_mass_per_area", "get_mass_per_area_rho"} => rec' = rec]_vars

\* get_mass_per_area raised the unsupported-method error on a
\* cross-referenced symmetric stack of two plies
C11_witness ==
    /\ IsLaminate
    /\ op = "get_mass_per_area"
    /\ exc = "AssertionError"
    /\ rec.lam = S("SYM")
    /\ Len(rec.plies) = 2
    /\ AllResolved(rec)

\* --------------------------------------------------------------- C12
raw_fields(self) ==
    IF self.type = "PCOMP" THEN PCOMP_raw_fields(self)
    ELSE IF self.type = "PCOMPG" THEN PCOMPG_raw_fields(self)
    ELSE IF self.type = "PSHEAR" THEN PSHEAR_raw_fields(self)
    ELSE PSHELL_raw_fields(self)

\* a class without a repr_fields of its own (PSHEAR) lists raw_fields()
repr_fields(self) ==
    IF self.type = "PCOMP" THEN PCOMP_repr_fields(self)
    ELSE IF self.type = "PCOMPG" THEN PCOMPG_repr_fields(self)
    ELSE IF self.type = "PSHEAR" THEN PSHEAR_raw_fields(self)
    ELSE PSHELL_repr_fields(self)

\* the value, or a blank when it equals the default
Blanked(v, default) == IF PyEq(v, default) THEN None_ ELSE v

\* the documented default of position j of the listing, Unset where the
\* position has none
C12_default(self, j) ==
    IF self.type = "PSHELL"
    THEN IF j = 6 THEN F(1, 1)
         ELSE IF j = 8 THEN F(833333, 1000000)
         ELSE IF j = 9 THEN F(0, 1)
         ELSE IF j = 10 /\ ~IsNone(self.t) THEN Mul(F(-1, 2), self.t)
         ELSE IF j = 11 /\ ~IsNone(self.t) THEN Mul(F(1, 2), self.t)
         ELSE Unset
    ELSE IF j = 3 THEN Mul(F(-1, 2), get_thickness(self, S("all")))
    ELSE IF j \in {4, 5, 7, 8} THEN F(0, 1)
    ELSE IF j >= 10 /\ self.type = "PCOMP" /\ (j - 10) % 4 = 2 THEN F(0, 1)
    ELSE IF j >= 10 /\ self.type = "PCOMP" /\ (j - 10) % 4 = 3 THEN S("NO")
    ELSE IF j >= 10 /\ self.type = "PCOMPG" /\ (j - 10) % 8 = 3 THEN F(0, 1)
    ELSE IF j >= 10 /\ self.type = "PCOMPG" /\ (j - 10) % 8 = 4 THEN S("NO")
    ELSE Unset

\* C12: repr_fields() is raw_fields() with every field that equals its
\* documented default replaced by a blank (nsm, sb, TRef, ge, ply theta, ply
\* sout, laminate z0, PSHELL 12I/t^3, ts/t, nsm, z1, z2), position by
\* position, on every object whose raw_fields() can be listed.
C12_repr ==
    (HasSlots /\ ~IsErr(FirstErr(raw_fields(rec))))
    => /\ Len(repr_fields(rec)) = Len(raw_fields(rec))
       /\ \A j \in 1..Len(raw_fields(rec)) :
             repr_fields(rec)[j] = Blanked(raw_fields(rec)[j], C12_default(rec, j))

\* --------------------------------------------------------------- C13
\* the number of positions of the full listing
C13_length(self) ==
    IF self.type = "PSHELL" THEN 12
    ELSE IF self.type = "PCOMP" THEN 9 + 4 * Len(self.plies)
    ELSE 9 + 8 * Len(self.plies)

C13_values ==
    HasSlots =>
        /\ Len(raw_fields(rec)) = C13_length(rec)
        /\ \A j \in 1..Len(raw_fields(rec)) : ~IsMat(raw_fields(rec)[j])
        /\ \A model \in Registries :
              raw_fields(Xref(rec, model).obj) = raw_fields(rec)
        /\ raw_fields(Unxref(rec).obj) = raw_fields(rec)

C14_stored(self, iply, slot) ==
    IF 0 <= iply.n /\ iply.n < get_nplies(self)
    THEN self.plies[_adjust_ply_id(self, iply).n + 1][slot]
    ELSE Err("IndexError")

\* C14: Mid, Material, get_thickness, get_theta, get_sout, get_density and,
\* on a PCOMPG, GlobalPlyID return the attribute of the stored ply
\* _adjust_ply_id(i) for every effective index i, and fail with the
\* index-out-of-range error for every other integer, negative ones included
\* (on a laminate every ply of which has a material).
C14_accessors ==
    (IsLaminate /\ \A k \in 1..Len(rec.plies) : ~IsNone(rec.plies[k][MID])) =>
        \A iply \in IntIndices :
            /\ Material(rec, iply) = C14_stored(rec, iply, MID)
            /\ Mid(rec, iply) = LET m == C14_stored(rec, iply, MID)
                                IN IF IsMat(m) THEN I(m.n) ELSE m
            /\ get_thickness(rec, iply) = C14_stored(rec, iply, T)
            /\ get_theta(rec, iply) = C14_stored(rec, iply, THETA)
            /\ get_sout(rec, iply) = C14_stored(rec, iply, SOUT)
            /\ IsErr(C14_stored(rec, iply, MID))
                  => get_density(rec, iply) = Err("IndexError")
            /\ IsMat(C14_stored(rec, iply, MID))
                  => get_density(rec, iply) = MatRho(C14_stored(rec, iply, MID).n)
            /\ rec.type = "PCOMPG"
                  => GlobalPlyID(rec, iply.n) = C14_stored(rec, iply, GPLYID)

\* --------------------------------------------------------------- C15
\* the identifiers _verify looks at: the property id and the present material
\* ids, with the position of each material slot
C15_mids(self) ==
    IF self.type = "PSHELL"
    THEN <<Mid1(self), Mid2(self), Mid3(self), Mid4(self)>>
    ELSE <<PSHEAR_Mid(self)>>

\* an identifier that is not a positive integer, the -1 of mid2 apart
C15_bad(self) ==
    \/ ~(IsInt(self.pid) /\ self.pid.n > 0)
    \/ \E k \in DOMAIN C15_mids(self) :
          LET v == C15_mids(self)[k]
          IN /\ ~IsNone(v)
             /\ ~(IsInt(v) /\ v.n > 0)
             /\ ~(self.type = "PSHELL" /\ k = 2 /\ v = I(-1))

C15_result(self, xref) ==
    IF self.type = "PSHELL" THEN PSHELL_verify(self, xref) ELSE PSHEAR_verify(self, xref)

\* C15: _verify on a PSHELL or a PSHEAR fails whenever the property id or a
\* present material id is not a positive integer (-1 in mid2 of a PSHELL
\* apart), and passes with xref=False on an object that is not
\* cross-referenced and whose property id and present material ids are
\* positive integers, a PSHELL with only mid1 among them.
C15_verify ==
    rec.type \in {"PSHELL", "PSHEAR"} =>
        /\ C15_bad(rec) => \A xref \in BOOLEAN : IsErr(C15_result(rec, xref))
        /\ (/\ ~C15_bad(rec)
            /\ IF rec.type = "PSHELL" THEN NotCrossReferenced(rec) ELSE ~IsMat(rec.mid)
            /\ \E j \in DOMAIN C15_mids(rec) : ~IsNone(C15_mids(rec)[j]))
               => C15_result(rec, FALSE) = None_

\* --------------------------------------------------------------- C16
\* C16: the construction of a PCOMP and of a PCOMPG from a card fails when
\* field 8 is not one of the lamination modes (blank, SYM, MEM, BEND, SMEAR,
\* SMCORE) or field 5 is not one of the failure theories (blank, HILL, HOFF,
\* TSAI, STRN).
C16_enums ==
    op \in {"PCOMP", "PCOMPG"} =>
        ((field(card, 8) \notin LamModes \/ field(card, 5) \notin FailureTheories)
            => exc # "ok" /\ rec = NoRecord)

\* --------------------------------------------------------------- C17
\* the material whose density MassPerArea() uses: of a PSHELL mid1 when it is
\* resolved and mid2 otherwise, of a PSHEAR its one material
C17_material(self) ==
    IF self.type = "PSHELL" THEN PSHELL_mid(self) ELSE self.mid

C17_MassPerArea(self) ==
    IF self.type = "PSHELL" THEN PSHELL_MassPerArea(self) ELSE PSHEAR_MassPerArea(self)

C17_values ==
    rec.type \in {"PSHELL", "PSHEAR"} =>
        IF IsMat(C17_material(rec))
        THEN C17_MassPerArea(rec) =
                 Add(rec.nsm, Mul(MatRho(C17_material(rec).n), rec.t))
        ELSE IsErr(C17_MassPerArea(rec))

\* C17: MassPerArea() of a PSHELL and of a PSHEAR whose material is resolved
\* is nsm + density * t, the density being that of the resolved material
\* (PSHELL: mid1 when resolved, mid2 otherwise); when the material is not
\* resolved the call fails with the error of an unresolved reference; the
\* call leaves the object as it is.
C17_mass ==
    /\ []C17_values
    /\ [][op' = "MassPerArea" => rec' = rec]_vars

\* --------------------------------------------------------------- C18
\* C18: for every effective index i of a laminate, 0 <= i < get_nplies(),
\* _adjust_ply_id(i) is an index of self.plies, 0 <= _adjust_ply_id(i) <
\* len(plies), and _adjust_ply_id maps it to itself.
C18_idempotent ==
    IsLaminate =>
        \A i \in 0..(get_nplies(rec) - 1) :
            LET a == _adjust_ply_id(rec, I(i))
            IN /\ IsInt(a)
               /\ 0 <= a.n /\ a.n < Len(rec.plies)
               /\ _adjust_ply_id(rec, a) = a

\* _adjust_ply_id returned on a symmetric stack of two plies, whose last
\* effective index 3 is brought to 1 and stays there
C18_witness ==
    /\ IsLaminate
    /\ op = "_adjust_ply_id"
    /\ exc = "ok"
    /\ rec.lam = S("SYM")
    /\ Len(rec.plies) = 2
    /\ get_nplies(rec) = 4
    /\ _adjust_ply_id(rec, _adjust_ply_id(rec, I(3))) = I(1)

\* --------------------------------------------------------------- C19
\* the width of a ply group of the card, and the place of the material
\* field in it
C19_width == IF op = "PCOMP" THEN 4 ELSE 8
C19_first == IF op = "PCOMP" THEN 0 ELSE 1

\* the number of ply groups of the card
C19_groups == IF nfields(card) > 9 THEN (nfields(card) - 9 + C19_width - 1) \div C19_width ELSE 0

\* the material field (j = 0) and the thickness field (j = 1) of group k
C19_field(k, j) == field(card, 9 + C19_width * (k - 1) + C19_first + j)

\* C19: a PCOMP (groups of 4 fields) or PCOMPG (groups of 8) built from a
\* card stores, for a group whose material or thickness field is blank, the
\* material or thickness of the preceding group; a blank material or
\* thickness in the first group makes the construction fail.
C19_carry ==
    op \in {"PCOMP", "PCOMPG"} =>
        /\ (C19_groups >= 1 /\ (IsNone(C19_field(1, 0)) \/ IsNone(C19_field(1, 1))))
              => exc # "ok"
        /\ exc = "ok" =>
              /\ Len(rec.plies) = C19_groups
              /\ \A k \in 1..Len(rec.plies) : \A j \in 0..1 :
                    rec.plies[k][MID + j] =
                        IF IsNone(C19_field(k, j)) THEN rec.plies[k - 1][MID + j]
                        ELSE C19_field(k, j)

\* --------------------------------------------------------------- C20
\* position p of the listing holds a ply slot of the object: one of the 4
\* fields of a PCOMP ply, one of the first 5 of the 8 fields of a PCOMPG ply
C20_declared(self, p) ==
    IF self.type = "PCOMP" THEN 9 <= p /\ p < 9 + 4 * Len(self.plies)
    ELSE 9 <= p /\ p < 9 + 8 * Len(self.plies) /\ (p - 9) % 8 < 5

\* position p of raw_fields(), which lists the card's name at position 0
C20_listed(self, p) == raw_fields(self)[p + 1]

\* C20: an in-place update at position p >= 9 with value v changes exactly
\* what raw_fields() lists at position p (PCOMP: 9 + 4k + j is slot j of ply
\* k in the order mid, t, theta, sout, position 9 included; PCOMPG:
\* 9 + 8k + j, j < 5, in the order global ply id, mid, t, theta, sout):
\* raw_fields()[p] is v afterwards and every other position is as before; at
\* a position that holds no slot the update fails and changes nothing (on a
\* laminate every ply of which has a material).
C20_update ==
    [][(/\ op' = "update_field"
        /\ BothLaminates
        /\ \A k \in 1..Len(rec.plies) : ~IsNone(rec.plies[k][MID])) =>
          LET p == upd'[1].n
              v == upd'[2]
          IN IF C20_declared(rec, p)
             THEN /\ exc' = "ok"
                  /\ Len(raw_fields(rec')) = Len(raw_fields(rec))
                  /\ C20_listed(rec', p) = v
                  /\ \A q \in 0..(Len(raw_fields(rec)) - 1) :
                        q # p => C20_listed(rec', q) = C20_listed(rec, q)
             ELSE exc' # "ok" /\ rec' = rec]_vars

\* --------------------------------------------------------------- C21
\* the card of a listing: its fields from position 1 on, the name left out
BDFCard(listing) == Trim(Tail(listing))

\* the constructor of the class called on a card
Construct(type, c) ==
    IF type = "PCOMP" THEN PCOMP_init(c)
    ELSE IF type = "PCOMPG" THEN PCOMPG_init(c)
    ELSE IF type = "PSHEAR" THEN PSHEAR_init(c)
    ELSE PSHELL_init(c)

\* C21: for every object just built from a card whose raw_fields() can be
\* listed, the object built from the card of repr_fields() lists the same
\* raw_fields(): PCOMP, PCOMPG, PSHELL and PSHEAR, a symmetric laminate with
\* a defaulted z0 or with z0 given as -get_thickness('all')/2 among them.
C21_roundtrip ==
    (/\ op \in {"PCOMP", "PCOMPG", "PSHELL", "PSHEAR"}
     /\ exc = "ok"
     /\ ~IsErr(FirstErr(raw_fields(rec)))) =>
        LET again == Construct(rec.type, BDFCard(repr_fields(rec)))
        IN /\ again.err = "ok"
           /\ raw_fields(again.obj) = raw_fields(rec)

\* --------------------------------------------------------------- C22
\* the plies before stored ply k hold the handles of the identifiers of
\* `before`, the plies from k on are as they were
C22_partial(before, after, k) ==
    /\ Len(after.plies) = Len(before.plies)
    /\ \A j \in 1..Len(before.plies) :
          after.plies[j] =
              IF j < k THEN [before.plies[j] EXCEPT ![MID] = Mat(before.plies[j][MID].n)]
              ELSE before.plies[j]

\* C22: when cross_reference fails on a laminate that is not
\* cross-referenced, the plies before the first one the registry does not
\* resolve hold resolved handles and the plies from it on hold what they
\* held; nothing else has changed; Mid(i) still returns the integer
\* identifier of every effective ply i; and uncross_reference() then gives
\* back the object as it was before the failed call.
C22_failed ==
    [][(/\ BothLaminates
        /\ op' = "cross_reference"
        /\ exc' # "ok"
        /\ NotCrossReferenced(rec)) =>
          /\ \E k \in 1..Len(rec.plies) : C22_partial(rec, rec', k)
          /\ [rec' EXCEPT !.plies = rec.plies] = rec
          /\ \A i \in 0..(get_nplies(rec) - 1) :
                /\ IsInt(Mid(rec', I(i)))
                /\ Mid(rec', I(i)) = Mid(rec, I(i))
          /\ uncross_reference(rec') = [err |-> "ok", obj |-> rec]]_vars

\* --------------------------------------------------------------- C23
\* what Mid() returns on the object: of a laminate, Mid(i) of every
\* effective ply
C23_Mid(self) ==
    IF self.type = "PSHELL" THEN <<PSHELL_Mid(self)>>
    ELSE IF self.type = "PSHEAR" THEN <<PSHEAR_Mid(self)>>
    ELSE IF self.type = "PLPLANE" THEN <<PLPLANE_Mid(self)>>
    ELSE Mids(self)

C23_cross_reference(self, model) ==
    IF self.type = "PSHEAR" THEN PSHEAR_cross_reference(self, model)
    ELSE IF self.type = "PLPLANE" THEN PLPLANE_cross_reference(self, model)
    ELSE Xref(self, model)

\* C23: Mid() returns the same identifier whatever the resolution state: on
\* every PSHELL, PSHEAR, PLPLANE and for every ply of a laminate, the value
\* after cross_reference is the value before it, and so is the value after
\* uncross_reference (PSHELL and laminates), a PSHELL whose mid1 and mid2
\* differ or that has only mid1 among them.
C23_stable ==
    rec.type \in Laminates \cup {"PSHELL", "PSHEAR", "PLPLANE"} =>
        /\ \A model \in Registries :
              C23_Mid(C23_cross_reference(rec, model).obj) = C23_Mid(rec)
        /\ HasSlots => C23_Mid(Unxref(rec).obj) = C23_Mid(rec)
====
